---- MODULE Spec2Model ----
(***************************************************************************)
(* pratt-calc: a REPL that lexes a line into single-character tokens,      *)
(* parses it with precedence climbing (Pratt parsing) and evaluates the    *)
(* tree in f32 arithmetic.  Model of src/src/main.rs.                      *)
(*                                                                         *)
(* Characters are their code points (ASCII), strings are sequences of      *)
(* code points.  A panic is a value [st |-> "panic", ...]: the process     *)
(* terminates and no later step is taken.                                  *)
(***************************************************************************)
EXTENDS Integers, Sequences, FiniteSets, TLC

VARIABLES stdin, pc, line, parsed, value, out, lx_input, lx_tokens, lx_log

vars == <<stdin, pc, line, parsed, value, out, lx_input, lx_tokens, lx_log>>

(***************************************************************************)
(* Bounds of the model.                                                    *)
(***************************************************************************)
\* longest line body typed at the prompt, in characters (general REPL)
MaxLen == 5
\* largest number of operands of a well-formed arithmetic line
MaxAtoms == 3
\* longest input handed to Lexer::new in the lexer specification
MaxLexLen == 3
\* most next/peek calls made on one Lexer
MaxCalls == 5

(***************************************************************************)
(* Strings.                                                                *)
(***************************************************************************)
Str_prompt == <<62, 62, 32>>            \* ">> "
Str_exit == <<101, 120, 105, 116>>      \* "exit"

\* faulty variant: only the space is whitespace
is_ascii_whitespace_space_only(c) == c = 32
\* char::is_ascii_whitespace: U+0020, U+0009, U+000A, U+000C, U+000D
is_ascii_whitespace(c) == c \in {32, 9, 10, 12, 13}

\* char::is_whitespace (White_Space), which str::trim uses; unlike
\* is_ascii_whitespace it contains U+000B and the non-ASCII spaces
is_whitespace(c) ==
  c \in {9, 10, 11, 12, 13, 32, 133, 160, 5760, 8232, 8233, 8239, 8287, 12288}
    \cup (8192..8202)

RECURSIVE trim_start(_)
trim_start(s) ==
  IF s # <<>> /\ is_whitespace(Head(s)) THEN trim_start(Tail(s)) ELSE s

RECURSIVE trim_end(_)
trim_end(s) ==
  IF s # <<>> /\ is_whitespace(s[Len(s)])
  THEN trim_end(SubSeq(s, 1, Len(s) - 1)) ELSE s

\* str::trim
trim(s) == trim_end(trim_start(s))

(***************************************************************************)
(* Token and Lexer.                                                        *)
(***************************************************************************)
Atom(c) == [t |-> "Atom", c |-> c]
Op(c) == [t |-> "Op", c |-> c]
Eof == [t |-> "Eof"]

\* the classification closure of Lexer::new
classify(c) ==
  IF c \in 48..57 \/ c \in 97..122 \/ c \in 65..90 THEN Atom(c) ELSE Op(c)

\* .chars().filter(|c| !c.is_ascii_whitespace())
RECURSIVE filter_chars(_)
filter_chars(s) ==
  IF s = <<>> THEN <<>>
  ELSE IF is_ascii_whitespace(Head(s)) THEN filter_chars(Tail(s))
       ELSE <<Head(s)>> \o filter_chars(Tail(s))

\* .map(...).collect()
map_classify(s) == [i \in 1..Len(s) |-> classify(s[i])]

\* Vec::reverse
reverse(v) == [i \in 1..Len(v) |-> v[Len(v) + 1 - i]]

\* faulty variant: the Vec is not reversed
Lexer_new_noreverse(input) == map_classify(filter_chars(input))
\* Lexer::new: the value is the Vec `tokens`, the next token last
Lexer_new(input) == reverse(map_classify(filter_chars(input)))

\* Lexer::next: self.tokens.pop().unwrap_or(Token::Eof)
Lexer_next(tokens) ==
  IF tokens = <<>> THEN [tok |-> Eof, tokens |-> tokens]
  ELSE [tok |-> tokens[Len(tokens)], tokens |-> SubSeq(tokens, 1, Len(tokens) - 1)]

\* Lexer::peek: self.tokens.last().copied().unwrap_or(Token::Eof)
Lexer_peek(tokens) == IF tokens = <<>> THEN Eof ELSE tokens[Len(tokens)]

(***************************************************************************)
(* Expr and the parser.  Binding powers are in tenths (1.0 is 10, 1.1 is   *)
(* 11): the code only compares them, and the f32 nearest to each literal   *)
(* keeps their order.                                                      *)
(***************************************************************************)
ExprAtom(c) == [k |-> "Atom", c |-> c]
ExprOp(c, operands) == [k |-> "Op", c |-> c, operands |-> operands]

\* faulty variant: the pairs swapped, which nests to the right
infix_binding_power_rassoc(op) ==
  IF op \in {43, 45} THEN [ok |-> TRUE, l |-> 11, r |-> 10]
  ELSE IF op \in {42, 47} THEN [ok |-> TRUE, l |-> 21, r |-> 20]
  ELSE [ok |-> FALSE]
\* faulty variant: # is given the binding power of + and -
infix_binding_power_hash(op) ==
  IF op \in {43, 45, 35} THEN [ok |-> TRUE, l |-> 10, r |-> 11]
  ELSE IF op \in {42, 47} THEN [ok |-> TRUE, l |-> 20, r |-> 21]
  ELSE [ok |-> FALSE]
\* faulty variant: the catch-all arm gives (2.0, 2.1) instead of panicking
infix_binding_power_default(op) ==
  IF op \in {43, 45} THEN [ok |-> TRUE, l |-> 10, r |-> 11]
  ELSE [ok |-> TRUE, l |-> 20, r |-> 21]
\* Expr::infix_binding_power; [ok |-> FALSE] is panic!("bad op: {:?}", op)
infix_binding_power(op) ==
  IF op \in {43, 45} THEN [ok |-> TRUE, l |-> 10, r |-> 11]
  ELSE IF op \in {42, 47} THEN [ok |-> TRUE, l |-> 20, r |-> 21]
  ELSE [ok |-> FALSE]

\* faulty variant: an Op is taken as the operand
lhs_start_any(t) ==
  IF t.t = "Eof" THEN [ok |-> FALSE] ELSE [ok |-> TRUE, expr |-> ExprAtom(t.c)]
\* the match on lexer.next() that starts parse_expr
lhs_start(t) ==
  IF t.t = "Atom" THEN [ok |-> TRUE, expr |-> ExprAtom(t.c)] ELSE [ok |-> FALSE]

\* faulty variant: an Atom where an operator is due ends the loop
peek_match_lenient(t) ==
  IF t.t = "Op" THEN [act |-> "op", op |-> t.c] ELSE [act |-> "break"]
\* the match on lexer.peek() in the loop of parse_expr
peek_match(t) ==
  IF t.t = "Eof" THEN [act |-> "break"]
  ELSE IF t.t = "Op" THEN [act |-> "op", op |-> t.c]
  ELSE [act |-> "panic"]

\* a panic of the parser; depth and min_bp say which parse_expr call raised
\* it, tokens is what the lexer still held
ParsePanic(msg, arg, depth, min_bp, tokens) ==
  [st |-> "panic", msg |-> msg, arg |-> arg, depth |-> depth,
   min_bp |-> min_bp, tokens |-> tokens]
ParseOk(expr, tokens) == [st |-> "ok", expr |-> expr, tokens |-> tokens]

RECURSIVE parse_expr(_, _, _), parse_loop(_, _, _, _)
\* Expr::parse_expr, the left-hand side; depth counts the enclosing calls
parse_expr(tokens, min_bp, depth) ==
  LET n == Lexer_next(tokens)
      l == lhs_start(n.tok)
  IN IF l.ok THEN parse_loop(n.tokens, min_bp, l.expr, depth)
     ELSE ParsePanic("bad token: ", n.tok, depth, min_bp, n.tokens)

\* Expr::parse_expr, the loop
parse_loop(tokens, min_bp, lhs, depth) ==
  LET p == peek_match(Lexer_peek(tokens))
  IN IF p.act = "break" THEN ParseOk(lhs, tokens)
     ELSE IF p.act = "panic"
     THEN ParsePanic("Bad token", Lexer_peek(tokens), depth, min_bp, tokens)
     ELSE LET bp == infix_binding_power(p.op)
          IN IF ~bp.ok
             THEN ParsePanic("bad op: ", p.op, depth, min_bp, tokens)
             ELSE IF bp.l < min_bp THEN ParseOk(lhs, tokens)
             ELSE LET rhs == parse_expr(Lexer_next(tokens).tokens, bp.r, depth + 1)
                  IN IF rhs.st = "panic" THEN rhs
                     ELSE parse_loop(rhs.tokens, min_bp,
                                     ExprOp(p.op, <<lhs, rhs.expr>>), depth)

\* Expr::from_str; the lexer it drops on return is kept in the result
from_str(input) == parse_expr(Lexer_new(input), 0, 0)

\* impl fmt::Display for Expr
RECURSIVE fmt(_)
fmt(e) ==
  IF e.k = "Atom" THEN <<e.c>>
  ELSE LET RECURSIVE rest(_)
           rest(i) == IF i > Len(e.operands) THEN <<>>
                      ELSE <<32>> \o fmt(e.operands[i]) \o rest(i + 1)
       IN <<40, e.c>> \o rest(1) \o <<41>>

(***************************************************************************)
(* f32: IEEE-754 binary32 with round-to-nearest-even, as Rust's f32.       *)
(* A finite value is (-1)^sign * m * 2^e with 0 <= m < 2^24 and            *)
(* -149 <= e <= 104, kept canonical: m >= 2^23 (normal), or e = -149       *)
(* (subnormal, and zero is m = 0).  NaN carries no sign or payload.        *)
(***************************************************************************)
F32Fin(sign, m, e) == [cls |-> "fin", sign |-> sign, m |-> m, e |-> e]
F32Zero(sign) == F32Fin(sign, 0, -149)
F32Inf(sign) == [cls |-> "inf", sign |-> sign]
F32NaN == [cls |-> "nan"]

RECURSIVE BitLen(_)
\* number of bits of n >= 0
BitLen(n) == IF n = 0 THEN 0 ELSE 1 + BitLen(n \div 2)

\* Rounding of an exact result to f32.  The exact magnitude is M * 2^E when
\* sticky is FALSE and lies strictly between M * 2^E and (M + 1) * 2^E when
\* it is TRUE; 0 <= M < 2^30, and M has at least 26 bits when sticky.
F32Round(sign, M, E, sticky) ==
  LET L == BitLen(M)
      s == IF L - 24 > -149 - E THEN L - 24 ELSE -149 - E
  IN IF M = 0 THEN F32Zero(sign)
     ELSE IF s <= 0 THEN F32Fin(sign, M * 2^(-s), E + s)
     ELSE IF s > 30 THEN F32Zero(sign)
     ELSE LET q == M \div 2^s
              rem == M % 2^s
              half == 2^(s - 1)
              up == rem > half \/ (rem = half /\ (sticky \/ q % 2 = 1))
              q2 == IF up THEN q + 1 ELSE q
              m == IF q2 = 16777216 THEN 8388608 ELSE q2
              e == IF q2 = 16777216 THEN E + s + 1 ELSE E + s
          IN IF m = 0 THEN F32Zero(sign)
             ELSE IF e > 104 THEN F32Inf(sign)
             ELSE F32Fin(sign, m, e)

\* a nonzero finite value with its mantissa shifted up to 24 bits
F32Norm(x) ==
  LET k == 24 - BitLen(x.m) IN [m |-> x.m * 2^k, e |-> x.e - k]

\* u32 as f32 of a digit value
F32FromDigit(d) == F32Round(0, d, 0, FALSE)

F32Neg(x) ==
  IF x.cls = "nan" THEN x ELSE [x EXCEPT !.sign = 1 - x.sign]

\* addition of two nonzero finite values
F32AddFin(x, y) ==
  LET a == IF x.e >= y.e THEN x ELSE y
      b == IF x.e >= y.e THEN y ELSE x
      d == a.e - b.e
      Ma == a.m * 8
      Mb == IF d > 27 THEN 0 ELSE (b.m * 8) \div 2^d
      st == IF d > 27 THEN TRUE ELSE (b.m * 8) % 2^d # 0
      E == a.e - 3
  IN IF a.sign = b.sign THEN F32Round(a.sign, Ma + Mb, E, st)
     ELSE IF st THEN F32Round(a.sign, Ma - Mb - 1, E, TRUE)
     ELSE IF Ma = Mb THEN F32Zero(0)
     ELSE IF Ma > Mb THEN F32Round(a.sign, Ma - Mb, E, FALSE)
     ELSE F32Round(b.sign, Mb - Ma, E, FALSE)

\* f32 + f32
F32Add(x, y) ==
  IF x.cls = "nan" \/ y.cls = "nan" THEN F32NaN
  ELSE IF x.cls = "inf" /\ y.cls = "inf"
       THEN IF x.sign = y.sign THEN x ELSE F32NaN
  ELSE IF x.cls = "inf" THEN x
  ELSE IF y.cls = "inf" THEN y
  ELSE IF x.m = 0 /\ y.m = 0
       THEN F32Zero(IF x.sign = 1 /\ y.sign = 1 THEN 1 ELSE 0)
  ELSE IF x.m = 0 THEN y
  ELSE IF y.m = 0 THEN x
  ELSE F32AddFin(x, y)

\* f32 - f32
F32Sub(x, y) == F32Add(x, F32Neg(y))

\* f32 * f32
F32Mul(x, y) ==
  IF x.cls = "nan" \/ y.cls = "nan" THEN F32NaN
  ELSE LET sign == (x.sign + y.sign) % 2
       IN IF x.cls = "inf" \/ y.cls = "inf"
          THEN IF (x.cls = "fin" /\ x.m = 0) \/ (y.cls = "fin" /\ y.m = 0)
               THEN F32NaN ELSE F32Inf(sign)
          ELSE IF x.m = 0 \/ y.m = 0 THEN F32Zero(sign)
          ELSE LET a == F32Norm(x)
                   b == F32Norm(y)
                   a1 == a.m \div 4096
                   a0 == a.m % 4096
                   b1 == b.m \div 4096
                   b0 == b.m % 4096
                   mid == a1 * b0 + a0 * b1
                   t == (mid % 4096) * 4096 + a0 * b0
                   lo == t % 16777216
                   hi == a1 * b1 + mid \div 4096 + t \div 16777216
               IN F32Round(sign, hi * 32 + lo \div 524288, a.e + b.e + 19,
                           lo % 524288 # 0)

RECURSIVE DivSteps(_, _, _, _)
\* n more quotient bits of r / b, r < b
DivSteps(r, b, n, q) ==
  IF n = 0 THEN [q |-> q, r |-> r]
  ELSE IF 2 * r >= b THEN DivSteps(2 * r - b, b, n - 1, 2 * q + 1)
       ELSE DivSteps(2 * r, b, n - 1, 2 * q)

\* f32 / f32
F32Div(x, y) ==
  IF x.cls = "nan" \/ y.cls = "nan" THEN F32NaN
  ELSE LET sign == (x.sign + y.sign) % 2
       IN IF x.cls = "inf" THEN IF y.cls = "inf" THEN F32NaN ELSE F32Inf(sign)
          ELSE IF y.cls = "inf" THEN F32Zero(sign)
          ELSE IF y.m = 0 THEN IF x.m = 0 THEN F32NaN ELSE F32Inf(sign)
          ELSE IF x.m = 0 THEN F32Zero(sign)
          ELSE LET a == F32Norm(x)
                   b == F32Norm(y)
                   q0 == IF a.m >= b.m THEN 1 ELSE 0
                   qr == DivSteps(a.m - q0 * b.m, b.m, 27, q0)
               IN F32Round(sign, qr.q, a.e - b.e - 27, qr.r # 0)

(***************************************************************************)
(* Expr::eval.                                                             *)
(***************************************************************************)
EvalOk(v) == [st |-> "ok", v |-> v]
EvalPanic(msg) == [st |-> "panic", msg |-> msg]

\* faulty variant: a letter evaluates to a number
eval_atom_radix36(atom) ==
  IF atom \in 48..57 THEN EvalOk(F32FromDigit(atom - 48))
  ELSE EvalOk(F32FromDigit(9))
\* the Expr::Atom arm of eval
eval_atom(atom) ==
  IF atom \in 48..57 THEN EvalOk(F32FromDigit(atom - 48))
  ELSE EvalPanic("internal error: entered unreachable code")

\* faulty variant: the operands of - and / swapped
apply_op_swapped(op, lhs, rhs) ==
  IF op = 43 THEN EvalOk(F32Add(lhs, rhs))
  ELSE IF op = 45 THEN EvalOk(F32Sub(rhs, lhs))
  ELSE IF op = 42 THEN EvalOk(F32Mul(lhs, rhs))
  ELSE IF op = 47 THEN EvalOk(F32Div(rhs, lhs))
  ELSE EvalPanic("Unsupported operator")
\* the match on op of the Expr::Op arm of eval
apply_op(op, lhs, rhs) ==
  IF op = 43 THEN EvalOk(F32Add(lhs, rhs))
  ELSE IF op = 45 THEN EvalOk(F32Sub(lhs, rhs))
  ELSE IF op = 42 THEN EvalOk(F32Mul(lhs, rhs))
  ELSE IF op = 47 THEN EvalOk(F32Div(lhs, rhs))
  ELSE EvalPanic("Unsupported operator")

RECURSIVE eval(_)
\* Expr::eval: the left operand first, then the right, then the operator
eval(e) ==
  IF e.k = "Atom" THEN eval_atom(e.c)
  ELSE LET lhs == eval(e.operands[1])
       IN IF lhs.st = "panic" THEN lhs
          ELSE LET rhs == eval(e.operands[Len(e.operands)])
               IN IF rhs.st = "panic" THEN rhs
                  ELSE apply_op(e.c, lhs.v, rhs.v)

(***************************************************************************)
(* main: the read-eval-print loop.                                         *)
(*                                                                         *)
(* stdin   the characters typed at the terminal and not yet read          *)
(* pc      where the loop stands: "loop" (top of an iteration),            *)
(*         "read_line" (prompt flushed, blocked in stdin.read_line),       *)
(*         "from_str", "eval", "end" (the end of the loop body), and the   *)
(*         two ends of the process, "exited" and "panicked"                *)
(* line    the buffer read_line filled                                     *)
(* parsed  what Expr::from_str(&line) gave, NoResult before the call       *)
(* value   what expr.eval() gave, NoResult before the call                 *)
(* out     what this iteration wrote to stdout, one item per write         *)
(* value is kept until the end of the loop body, where line and expr are   *)
(* dropped.                                                                *)
(***************************************************************************)
NoResult == [st |-> "none"]

\* a write of the string s, and of an f32 formatted by Display
WriteStr(s) == [s |-> s]
WriteF32(v) == [f32 |-> v]

\* what println!("{} {}", expr, expr.eval()) would write
println_value_with_expr(expr, v) ==
  <<WriteStr(fmt(expr)), WriteStr(<<32>>), WriteF32(v), WriteStr(<<10>>)>>
\* println!("{}", expr.eval())
println_value(expr, v) == <<WriteF32(v), WriteStr(<<10>>)>>

\* how the typed line ends: with "\n", or with the end of the input
Terminators == {<<10>>, <<>>}

\* characters typed in the general specification: 1 2 a + * # space
Alphabet == {49, 50, 97, 43, 42, 35, 32}

\* well-formed arithmetic lines: operands 0 1 2 3 4 8 9 a, operators + - * /
ArithAtoms == {48, 49, 50, 51, 52, 56, 57, 97}
ArithOps == {43, 45, 42, 47}

\* inputs of the lexer specification: 1 a Z + # space
LexAlphabet == {49, 97, 90, 43, 35, 32}
LexInputs == UNION {[1..n -> LexAlphabet] : n \in 0..MaxLexLen}

ReplIdle ==
  /\ stdin = <<>>
  /\ pc = "loop" /\ line = <<>> /\ parsed = NoResult /\ value = NoResult
  /\ out = <<>>

Init ==
  /\ ReplIdle
  /\ lx_input = <<>> /\ lx_tokens = <<>> /\ lx_log = <<>>

lexer_vars == <<lx_input, lx_tokens, lx_log>>
repl_vars == <<stdin, pc, line, parsed, value, out>>

\* lines 10-11: print!(">> ") and stdout.flush(); the program then blocks
\* in stdin.read_line
Prompt ==
  /\ pc = "loop"
  /\ out' = out \o <<WriteStr(Str_prompt)>>
  /\ pc' = "read_line"
  /\ UNCHANGED <<stdin, line, parsed, value>>
  /\ UNCHANGED lexer_vars

\* the user types the character c while the program waits in read_line
Type(c) ==
  /\ pc = "read_line"
  /\ stdin # Str_exit
  /\ stdin' = Append(stdin, c)
  /\ UNCHANGED <<pc, line, parsed, value, out>>
  /\ UNCHANGED lexer_vars

\* the user types the exit command
TypeExit ==
  /\ pc = "read_line"
  /\ stdin = <<>>
  /\ stdin' = Str_exit
  /\ UNCHANGED <<pc, line, parsed, value, out>>
  /\ UNCHANGED lexer_vars

\* lines 13-21: read_line returns the line typed so far, which ends with
\* nl, and the exit command is checked
ReadLine(nl) ==
  /\ pc = "read_line"
  /\ UNCHANGED out
  /\ line' = stdin \o nl
  /\ stdin' = <<>>
  /\ pc' = IF trim(line') = Str_exit THEN "exited" ELSE "from_str"
  /\ parsed' = NoResult
  /\ value' = NoResult
  /\ UNCHANGED lexer_vars

\* line 23: let expr = Expr::from_str(&line)
FromStr ==
  /\ pc = "from_str"
  /\ parsed' = from_str(line)
  /\ pc' = IF parsed'.st = "ok" THEN "eval" ELSE "panicked"
  /\ UNCHANGED <<stdin, line, value, out>>
  /\ UNCHANGED lexer_vars

\* line 25: println!("{}", expr.eval())
EvalPrint ==
  /\ pc = "eval"
  /\ value' = eval(parsed.expr)
  /\ IF value'.st = "ok"
     THEN pc' = "end" /\ out' = out \o println_value(parsed.expr, value'.v)
     ELSE pc' = "panicked" /\ out' = out
  /\ UNCHANGED <<stdin, line, parsed>>
  /\ UNCHANGED lexer_vars

\* line 26: the loop body ends, line and expr are dropped
EndIteration ==
  /\ pc = "end"
  /\ pc' = "loop" /\ line' = <<>> /\ parsed' = NoResult /\ value' = NoResult
  /\ out' = <<>>
  /\ UNCHANGED stdin
  /\ UNCHANGED lexer_vars

Next ==
  \/ Prompt
  \/ \E c \in Alphabet : Len(stdin) < MaxLen /\ Type(c)
  \/ TypeExit
  \/ \E nl \in Terminators : ReadLine(nl)
  \/ FromStr
  \/ EvalPrint
  \/ EndIteration

Spec == Init /\ [][Next]_vars

NextArith ==
  \/ Prompt
  \/ \E c \in ArithAtoms :
        Len(stdin) % 2 = 0 /\ Len(stdin) < 2 * MaxAtoms - 1 /\ Type(c)
  \/ \E c \in ArithOps :
        Len(stdin) % 2 = 1 /\ Len(stdin) < 2 * MaxAtoms - 1 /\ Type(c)
  \/ TypeExit
  \/ \E nl \in Terminators :
        (Len(stdin) % 2 = 1 \/ stdin = Str_exit) /\ ReadLine(nl)
  \/ FromStr
  \/ EvalPrint
  \/ EndIteration

SpecArith == Init /\ [][NextArith]_vars

(***************************************************************************)
(* The Lexer on its own: one Lexer, built by Lexer::new from any input,    *)
(* and any sequence of next and peek calls on it.  lx_log records each     *)
(* call with the token it returned and the number of tokens it left in     *)
(* the Vec.                                                                *)
(***************************************************************************)
InitLexer ==
  /\ ReplIdle
  /\ lx_input \in LexInputs
  /\ lx_tokens = Lexer_new(lx_input)
  /\ lx_log = <<>>

LexerNextCall ==
  /\ Len(lx_log) < MaxCalls
  /\ lx_tokens' = Lexer_next(lx_tokens).tokens
  /\ lx_log' = Append(lx_log, [call |-> "next", ret |-> Lexer_next(lx_tokens).tok,
                                left |-> Len(lx_tokens')])
  /\ UNCHANGED <<lx_input, repl_vars>>

LexerPeekCall ==
  /\ Len(lx_log) < MaxCalls
  /\ lx_tokens' = lx_tokens
  /\ lx_log' = Append(lx_log, [call |-> "peek", ret |-> Lexer_peek(lx_tokens),
                                left |-> Len(lx_tokens')])
  /\ UNCHANGED <<lx_input, repl_vars>>

NextLexer == LexerNextCall \/ LexerPeekCall

SpecLexer == InitLexer /\ [][NextLexer]_vars

(***************************************************************************)
(* Vocabulary of the properties, stated on the characters of the line      *)
(* independently of the lexer and of the parser.                           *)
(***************************************************************************)
AsciiWhitespace == {32, 9, 10, 12, 13}
KnownOps == {43, 45, 42, 47}
IsDigitChar(c) == 48 <= c /\ c <= 57
IsLetterChar(c) == (65 <= c /\ c <= 90) \/ (97 <= c /\ c <= 122)
IsAtomChar(c) == IsDigitChar(c) \/ IsLetterChar(c)

\* the non-whitespace characters of s, in order
Visible(s) == SelectSeq(s, LAMBDA c : c \notin AsciiWhitespace)

\* the classification of the non-whitespace characters of s, in order
ExpectedTokens(s) ==
  LET v == Visible(s)
  IN [i \in 1..Len(v) |-> IF IsAtomChar(v[i]) THEN Atom(v[i]) ELSE Op(v[i])]

\* v alternates Atom, Op, Atom, ..., Atom with every operator in + - * /
Alternates(v) ==
  /\ Len(v) % 2 = 1
  /\ \A i \in 1..Len(v) :
       IF i % 2 = 1 THEN IsAtomChar(v[i]) ELSE v[i] \in KnownOps

\* the last position of v holding a character of S, 0 when there is none
LastIn(v, S) ==
  LET I == {i \in 1..Len(v) : v[i] \in S}
  IN IF I = {} THEN 0 ELSE CHOOSE i \in I : \A j \in I : j <= i

RECURSIVE GrammarTree(_)
\* the tree of the two-tier left-associative grammar
\*   expr ::= expr (+|-) term | term      term ::= term (*|/) atom | atom
GrammarTree(v) ==
  LET a == LastIn(v, {43, 45})
      k == IF a > 0 THEN a ELSE LastIn(v, {42, 47})
  IN IF k = 0 THEN ExprAtom(v[1])
     ELSE ExprOp(v[k], <<GrammarTree(SubSeq(v, 1, k - 1)),
                         GrammarTree(SubSeq(v, k + 1, Len(v)))>>)

Tier(e) ==
  IF e.k = "Atom" THEN 0 ELSE IF e.c \in {43, 45} THEN 1 ELSE 2

RECURSIVE TiersNest(_)
\* no * or / node has a + or - child, and no right child is of its parent's tier
TiersNest(e) ==
  \/ e.k = "Atom"
  \/ /\ Len(e.operands) = 2
     /\ Tier(e) = 2 => Tier(e.operands[1]) # 1 /\ Tier(e.operands[2]) # 1
     /\ Tier(e.operands[2]) # Tier(e)
     /\ TiersNest(e.operands[1])
     /\ TiersNest(e.operands[2])

RECURSIVE InOrder(_)
\* the atoms and operators of a tree, left subtree, operator, right subtree
InOrder(e) ==
  IF e.k = "Atom" THEN <<Atom(e.c)>>
  ELSE InOrder(e.operands[1]) \o <<Op(e.c)>> \o InOrder(e.operands[2])

RECURSIVE WellFormed(_)
\* binary nodes over + - * / and leaves that are digits or letters
WellFormed(e) ==
  IF e.k = "Atom" THEN IsAtomChar(e.c)
  ELSE /\ e.c \in KnownOps
       /\ Len(e.operands) = 2
       /\ WellFormed(e.operands[1])
       /\ WellFormed(e.operands[2])

RECURSIVE Height(_)
Height(e) ==
  IF e.k = "Atom" THEN 0
  ELSE LET l == Height(e.operands[1])
           r == Height(e.operands[Len(e.operands)])
       IN 1 + (IF l > r THEN l ELSE r)

\* The first token, scanning left to right, that cannot stand where it is:
\* operands at the odd places, operators of + - * / at the even ones.
RECURSIVE FirstFault(_, _)
FirstFault(ts, i) ==
  LET t == IF i <= Len(ts) THEN ts[i] ELSE Eof
  IN IF i % 2 = 1
     THEN IF t.t = "Atom" THEN FirstFault(ts, i + 1)
          ELSE [fault |-> "malformed-start", at |-> t]
     ELSE IF t.t = "Eof" THEN [fault |-> "none"]
          ELSE IF t.t = "Atom" THEN [fault |-> "unexpected-token", at |-> t]
          ELSE IF t.c \in KnownOps THEN FirstFault(ts, i + 1)
          ELSE [fault |-> "unknown-operator", at |-> t]

Fault == FirstFault(ExpectedTokens(line), 1)

\* from_str has been called on the current line
Parsed == parsed # NoResult

(***************************************************************************)
(* C1.  Every line whose non-whitespace characters alternate Atom, Op,     *)
(* ..., Atom over + - * / parses to the tree of the two-tier               *)
(* left-associative grammar: * and / bind tighter than + and -, and        *)
(* operators of one tier nest to the left.                                 *)
(***************************************************************************)
C1_TwoTierLeftAssoc ==
  (Parsed /\ Alternates(Visible(line))) =>
     /\ parsed.st = "ok"
     /\ parsed.expr = GrammarTree(Visible(line))
     /\ TiersNest(parsed.expr)

\* "1+2*3" has parsed to (+ 1 (* 2 3))
C1_Witness ==
  /\ Parsed
  /\ Visible(line) = <<49, 43, 50, 42, 51>>
  /\ parsed.st = "ok"
  /\ fmt(parsed.expr) = <<40, 43, 32, 49, 32, 40, 42, 32, 50, 32, 51, 41, 41>>

(***************************************************************************)
(* C6.  Whenever from_str returns a tree the token stream is empty and     *)
(* the tree read in order is the lexed token sequence; a token that        *)
(* cannot be consumed (an operand where an operator is due) is a fatal     *)
(* unexpected-token error, never a tree with tokens left over.             *)
(***************************************************************************)
C6_ConsumesAll ==
  Parsed =>
     /\ parsed.st = "ok" =>
          /\ parsed.tokens = <<>>
          /\ InOrder(parsed.expr) = ExpectedTokens(line)
     /\ Fault.fault = "unexpected-token" <=>
          (parsed.st = "panic" /\ parsed.msg = "Bad token")

\* a tree with two operators has been returned
C6_Witness ==
  /\ Parsed
  /\ parsed.st = "ok"
  /\ Len(ExpectedTokens(line)) = 5
  /\ parsed.tokens = <<>>

(***************************************************************************)
(* C9.  Every tree from_str returns has binary operator nodes over         *)
(* + - * / and digit or letter leaves, so eval never reaches its           *)
(* "Unsupported operator" branch.                                          *)
(***************************************************************************)
C9_TreeInvariant ==
  /\ (Parsed /\ parsed.st = "ok") => WellFormed(parsed.expr)
  /\ value.st = "panic" => value.msg # "Unsupported operator"

\* a tree with an operator node over an operator node has been evaluated
C9_Witness ==
  /\ Parsed
  /\ parsed.st = "ok"
  /\ Height(parsed.expr) >= 2
  /\ value # NoResult

(***************************************************************************)
(* C4.  Whenever a parse_expr call, the top-level one or a recursive       *)
(* one, finds a token other than an Atom where its operand is due (an Op   *)
(* or the end of input), the parse panics with "bad token: <token>" and    *)
(* returns no tree.                                                        *)
(***************************************************************************)
C4_MalformedStart ==
  Parsed =>
     (Fault.fault = "malformed-start" <=>
        /\ parsed.st = "panic"
        /\ parsed.msg = "bad token: "
        /\ parsed.arg = Fault.at)

\* "1+": the recursive call for the right-hand side met the end of input
C4_Witness ==
  /\ Parsed
  /\ parsed.st = "panic"
  /\ parsed.msg = "bad token: "
  /\ parsed.arg = Eof
  /\ parsed.depth >= 1
  /\ pc = "panicked"

(***************************************************************************)
(* C5.  Whenever the parser peeks, where an operator is due, an Op whose   *)
(* character is not one of + - * /, the parse panics with                  *)
(* "bad op: <char>" at the binding-power lookup, at every depth and for    *)
(* every min_bp, and no tree is built.                                     *)
(***************************************************************************)
C5_UnknownOperator ==
  Parsed =>
     (Fault.fault = "unknown-operator" <=>
        /\ parsed.st = "panic"
        /\ parsed.msg = "bad op: "
        /\ parsed.arg = Fault.at.c)

\* "1*1#1": the lookup panicked in a nested call whose min_bp is 2.1,
\* above every binding power
C5_Witness ==
  /\ Parsed
  /\ parsed.st = "panic"
  /\ parsed.msg = "bad op: "
  /\ parsed.depth >= 1
  /\ parsed.min_bp = 21
  /\ pc = "panicked"

(***************************************************************************)
(* C3.  Inserting or removing ASCII whitespace anywhere in a line does     *)
(* not change what from_str gives: the same tree, or the same panic.       *)
(***************************************************************************)
InsertAt(s, i, c) == SubSeq(s, 1, i) \o <<c>> \o SubSeq(s, i + 1, Len(s))
RemoveAt(s, i) == SubSeq(s, 1, i - 1) \o SubSeq(s, i + 1, Len(s))

C3_WhitespaceInsensitive ==
  Parsed =>
     /\ \A i \in 0..Len(line), w \in AsciiWhitespace :
          from_str(InsertAt(line, i, w)) = parsed
     /\ \A i \in 1..Len(line) :
          line[i] \in AsciiWhitespace => from_str(RemoveAt(line, i)) = parsed
     /\ from_str(Visible(line)) = parsed

\* "1 + 1" has parsed to a tree
C3_Witness ==
  /\ Parsed
  /\ parsed.st = "ok"
  /\ Len(line) > Len(Visible(line)) + 1
  /\ Len(Visible(line)) >= 3

(***************************************************************************)
(* Conventional arithmetic: exact rationals n/d, d > 0, in lowest terms.   *)
(***************************************************************************)
Abs(n) == IF n < 0 THEN -n ELSE n

RECURSIVE Gcd(_, _)
Gcd(a, b) == IF b = 0 THEN a ELSE Gcd(b, a % b)

Rat(n, d) ==
  LET g == Gcd(Abs(n), Abs(d))
      sg == IF d < 0 THEN -1 ELSE 1
  IN [n |-> sg * (n \div g), d |-> sg * (d \div g)]

RatApply(op, x, y) ==
  IF op = 43 THEN Rat(x.n * y.d + y.n * x.d, x.d * y.d)
  ELSE IF op = 45 THEN Rat(x.n * y.d - y.n * x.d, x.d * y.d)
  ELSE IF op = 42 THEN Rat(x.n * y.n, x.d * y.d)
  ELSE Rat(x.n * y.d, x.d * y.n)

RECURSIVE OddPart(_)
OddPart(n) == IF n # 0 /\ n % 2 = 0 THEN OddPart(n \div 2) ELSE n

\* n/d is a value of f32: a dyadic rational whose significand has at most
\* 24 bits (the exponent range is no limit for the integers TLC holds)
Representable(x) == OddPart(x.d) = 1 /\ BitLen(OddPart(Abs(x.n))) <= 24

RECURSIVE ExactValue(_)
\* The value of the digit expression v in conventional arithmetic:
\* def is FALSE when some divisor is zero, and exact says that the value of
\* every subexpression is a value of f32.
ExactValue(v) ==
  LET a == LastIn(v, {43, 45})
      k == IF a > 0 THEN a ELSE LastIn(v, {42, 47})
  IN IF k = 0 THEN [def |-> TRUE, q |-> Rat(v[1] - 48, 1), exact |-> TRUE]
     ELSE LET l == ExactValue(SubSeq(v, 1, k - 1))
              r == ExactValue(SubSeq(v, k + 1, Len(v)))
          IN IF ~l.def \/ ~r.def \/ (v[k] = 47 /\ r.q.n = 0)
             THEN [def |-> FALSE]
             ELSE LET q == RatApply(v[k], l.q, r.q)
                  IN [def |-> TRUE, q |-> q,
                      exact |-> l.exact /\ r.exact /\ Representable(q)]

\* the f32 x is exactly the rational q
F32Is(x, q) ==
  /\ x.cls = "fin"
  /\ IF x.m = 0 THEN q.n = 0
     ELSE LET mo == OddPart(x.m)
              eo == x.e + (BitLen(x.m) - BitLen(mo))
          IN /\ (x.sign = 1) <=> (q.n < 0)
             /\ IF eo >= 0
                THEN /\ q.d = 1
                     /\ BitLen(mo) + eo <= 30
                     /\ Abs(q.n) = mo * 2^eo
                ELSE /\ -eo <= 30
                     /\ q.d = 2^(-eo)
                     /\ Abs(q.n) = mo

\* a well-formed line over digit operands
DigitLine ==
  /\ Alternates(Visible(line))
  /\ \A i \in 1..Len(Visible(line)) :
       IsAtomChar(Visible(line)[i]) => IsDigitChar(Visible(line)[i])

\* a well-formed line with a letter among its operands
LetterLine ==
  /\ Alternates(Visible(line))
  /\ \E i \in 1..Len(Visible(line)) : IsLetterChar(Visible(line)[i])

(***************************************************************************)
(* C2, as claimed.  For every valid line over digit operands,              *)
(* eval(from_str(line)) is the value of the expression in conventional     *)
(* arithmetic.                                                             *)
(***************************************************************************)
C2_ConventionalValue ==
  (DigitLine /\ pc = "end") =>
     /\ value.st = "ok"
     /\ ExactValue(Visible(line)).def
     /\ F32Is(value.v, ExactValue(Visible(line)).q)

(***************************************************************************)
(* C2, amended.  For every valid line over digit operands eval succeeds    *)
(* with an f32: the conventional value whenever no divisor is zero and     *)
(* the value of every subexpression is exactly representable in f32, and   *)
(* an infinity or NaN, not an error, when some divisor is zero.            *)
(***************************************************************************)
C2_F32Value ==
  (DigitLine /\ pc \notin {"from_str", "eval"}) =>
     /\ pc = "end"
     /\ value.st = "ok"
     /\ LET x == ExactValue(Visible(line))
        IN /\ ~x.def => value.v.cls \in {"inf", "nan"}
           /\ (x.def /\ x.exact) => F32Is(value.v, x.q)

\* "8/4/2" has evaluated to 1
C2_Witness ==
  /\ pc = "end"
  /\ Visible(line) = <<56, 47, 52, 47, 50>>
  /\ value = EvalOk(F32Fin(0, 8388608, -23))

(***************************************************************************)
(* C7.  A line that is valid except that some operands are ASCII letters   *)
(* parses to a tree with those letters as leaves, and eval of that tree    *)
(* panics instead of producing a number.                                   *)
(***************************************************************************)
C7_LettersParseNotEval ==
  (LetterLine /\ Parsed) =>
     /\ parsed.st = "ok"
     /\ InOrder(parsed.expr) = ExpectedTokens(line)
     /\ pc # "eval" =>
          /\ pc = "panicked"
          /\ value = EvalPanic("internal error: entered unreachable code")
          /\ out = <<WriteStr(Str_prompt)>>

\* "a+1" (or the like) has parsed and its evaluation has panicked
C7_Witness ==
  /\ LetterLine
  /\ Len(Visible(line)) >= 3
  /\ IsDigitChar(Visible(line)[3])
  /\ parsed.st = "ok"
  /\ pc = "panicked"
  /\ value.st = "panic"

(***************************************************************************)
(* C8.  For every line that parses and evaluates, the output line is       *)
(* render(expr), the parenthesized prefix form of the tree, followed by    *)
(* a representation of the numeric result.                                 *)
(***************************************************************************)
C8_OutputRenderThenValue ==
  (pc = "end" /\ value.st = "ok") =>
     \E i \in 1..Len(out), j \in 1..Len(out) :
        /\ i < j
        /\ out[i] = WriteStr(fmt(parsed.expr))
        /\ out[j] = WriteF32(value.v)
        /\ out[Len(out)] = WriteStr(<<10>>)

(***************************************************************************)
(* C10.  The tokens successive next calls return are the classifications   *)
(* of the non-whitespace characters of the input, in input order, then     *)
(* Eof for ever; no Eof is stored; and peek returns the token the          *)
(* following next returns and leaves the stream as it was.                 *)
(***************************************************************************)
\* the number of next calls among the first j calls
RECURSIVE NextsBefore(_)
NextsBefore(j) ==
  IF j = 0 THEN 0
  ELSE NextsBefore(j - 1) + (IF lx_log[j].call = "next" THEN 1 ELSE 0)

\* the number of tokens the input still has to give after its first k
TokensAfter(k) ==
  IF k <= Len(ExpectedTokens(lx_input))
  THEN Len(ExpectedTokens(lx_input)) - k ELSE 0

\* the k-th token of the input, Eof past its end
TokenAt(k) ==
  IF k <= Len(ExpectedTokens(lx_input)) THEN ExpectedTokens(lx_input)[k] ELSE Eof

C10_TokenStreamOrder ==
  /\ \A j \in 1..Len(lx_log) :
       /\ lx_log[j].call = "next" => lx_log[j].ret = TokenAt(NextsBefore(j))
       /\ lx_log[j].call = "peek" => lx_log[j].ret = TokenAt(NextsBefore(j) + 1)
       /\ (lx_log[j].call = "peek" /\ j < Len(lx_log) /\ lx_log[j + 1].call = "next")
            => lx_log[j + 1].ret = lx_log[j].ret
       /\ lx_log[j].left = TokensAfter(NextsBefore(j))
  /\ \A i \in 1..Len(lx_tokens) : lx_tokens[i] # Eof
  /\ Len(lx_tokens) = TokensAfter(NextsBefore(Len(lx_log)))
  /\ Lexer_peek(lx_tokens) = TokenAt(NextsBefore(Len(lx_log)) + 1)

\* a peek, the next after it, and a next past the end of a two-token input
C10_Witness ==
  /\ Len(ExpectedTokens(lx_input)) = 2
  /\ Len(lx_input) = 3
  /\ Len(lx_log) = 4
  /\ lx_log[1].call = "peek"
  /\ lx_log[2].call = "next"
  /\ lx_log[4] = [call |-> "next", ret |-> Eof, left |-> 0]
====
